---------------------------- MODULE Spec2Model ----------------------------
(***************************************************************************)
(* A model of go-conntracer-bpf.                                           *)
(*                                                                         *)
(*  - Spec       : the kernel probes of the streaming BPF program          *)
(*                 (bpf/conntracer_streaming.bpf.c): the in-flight connect  *)
(*                 map, the UDP port-binding table, the flows ring buffer.  *)
(*  - LifeSpec   : the userspace lifecycle of Tracer (tracer.go) and       *)
(*                 TracerStreaming (tracer_streaming.go): constructor,      *)
(*                 Start, Stop, Close and the polling worker.               *)
(*  - FairLifeSpec : LifeSpec with the fairness the Go scheduler gives the  *)
(*                 goroutines that are running.                             *)
(*  - DumpSpec   : Tracer.DumpFlows on the aggregating program's maps: the  *)
(*                 kernel fills the flows and flow_stats hash maps, the two *)
(*                 drainer goroutines empty them, DumpFlows merges.         *)
(*                                                                         *)
(* Ports are 16-bit values.  The BPF target is little-endian (x86_64 or    *)
(* arm64, Makefile:19-20), so bpf_htons/bpf_ntohs swap the two bytes.      *)
(***************************************************************************)
EXTENDS Integers, Sequences, FiniteSets, TLC

(***************************************************************************)
(* Bounds of the model.                                                    *)
(***************************************************************************)
MaxTid == 1          \* kernel threads issuing syscalls
RingCap == 1         \* records the flows ring buffer holds before reserve fails
MaxStarts == 2       \* calls of Start on the tracer
MaxStops == 2        \* calls of Stop on the tracer
MaxCloses == 2       \* calls of Close on the tracer
MaxBytes == 1        \* cap of the bytes counted in one flow_stats entry

(***************************************************************************)
(* Program constants.                                                      *)
(***************************************************************************)
FLOW_UNKNOWN == 1
FLOW_ACTIVE == 2
FLOW_PASSIVE == 3
IPPROTO_TCP == 6
IPPROTO_UDP == 17
AF_INET == 2
SOCK_DGRAM == 2

Tids == 1..MaxTid

\* every thread belongs to the traced process.  bpf_get_current_pid_tgid()
\* is tgid << 32 | tid, kept as its two 32-bit halves.
pid_tgid(t) == [hi |-> 7, lo |-> t]
PidOf(ptg) == ptg.hi
TidOf(ptg) == ptg.lo

(***************************************************************************)
(* Byte order.                                                             *)
(***************************************************************************)
swab16(x) == (x % 256) * 256 + (x \div 256)
bpf_htons(x) == swab16(x)

\* port numbers used by the workload.  Local ports: 53 = 0x0035 and
\* 13568 = 0x3500 (each the byte swap of the other); remote port: 80 = 0x0050.
PortNums == {53, 13568}
RemotePortNums == {80}
LocalAddrs == {1}
RemoteAddrs == {2}

(***************************************************************************)
(* The workload: a conversation between a local and a remote endpoint,     *)
(* given by port NUMBERS.  The kernel objects the probes read are derived  *)
(* from it with the byte order the kernel keeps them in.                   *)
(***************************************************************************)
Convs == [laddr : LocalAddrs, raddr : RemoteAddrs, lport : PortNums, rport : RemotePortNums]

\* struct sock: skc_num is in host byte order, skc_dport in network byte order
SockOf(c) == [skc_rcv_saddr |-> c.laddr, skc_daddr |-> c.raddr,
              skc_num |-> c.lport, skc_dport |-> bpf_htons(c.rport)]
\* struct flowi4 of an outgoing datagram
Flowi4Of(c) == [saddr |-> c.laddr, daddr |-> c.raddr]
\* IP and UDP headers of an incoming datagram (all in network byte order)
SkbOf(c) == [ip_saddr |-> c.raddr, ip_daddr |-> c.laddr,
             source |-> bpf_htons(c.rport), dest |-> bpf_htons(c.lport)]

\* values a freshly reserved ring-buffer record may hold in the l4_proto
\* field when the probe does not write it: 0 (a page never written) or what
\* an earlier record left there, which is IPPROTO_UDP, the only value the
\* program ever stores in the field
StaleProto == {0, IPPROTO_UDP}

VARIABLES
    tcp_connect_sockets,   \* BPF hash map: tid -> struct sock * (partial function)
    udp_port_binding,      \* BPF hash map: port key -> state (partial function)
    flows,                 \* BPF ring buffer: sequence of submitted records
    thr,                   \* per thread: the syscall it is inside
    udp_socket_req,        \* threads marked by sys_enter_socket
    udp_fds,               \* <<tid, fd>> recorded as UDP sockets by sys_exit_socket
    pending_bind           \* tid -> port key of the bind in flight (partial function)

kvars == <<tcp_connect_sockets, udp_port_binding, flows, thr, udp_socket_req,
           udp_fds, pending_bind>>

VARIABLES
    mode,        \* constructor called: "none", "aggr" (NewTracer), "streaming"
    tracer,      \* what the constructor returned: "none", "valid", "error"
    obj,         \* the BPF object: "none", "loaded", "attached", "destroyed"
    rb,          \* the ring buffer consumer: "none", "alive", "freed"
    statsFd,     \* t.statsFd
    openFds,     \* the BPF stats fds open in the process
    stopChan,    \* t.stopChan: "open" or "closed"
    stopCalls,   \* per call of Stop: "none", "sending", "returned", "panic"
    closePc,     \* per call of Close: the statement it is at
    wk,          \* per call of Start: the polling worker it runs
    proc         \* the process: "running", "panic" (Go runtime panic), "crash"

VARIABLES
    flowsMap,    \* aggregating program: hash map flows, tuple -> aggregated flow
    flowStats,   \* aggregating program: hash map flow_stats, tuple -> stat
    dpc,         \* the caller of DumpFlows: "idle" or "wait" (in eg.Wait)
    drainer,     \* the two goroutines of DumpFlows: "idle", "run", "ok", "err",
                 \* "blocked" (in its channel send)
    flowChan,    \* buffered channel (capacity 1) of the flows drainer
    statChan,    \* buffered channel (capacity 1) of the stats drainer
    dumpRes,     \* what the last DumpFlows call returned
    atCall,      \* number of entries of the flows map when DumpFlows was called
    inserted,    \* the kernel touched the flows map since DumpFlows was called
    prevClean,   \* the call before the current one succeeded and the kernel has
                 \* not touched the flows map since that call began
    lastDrained  \* the two maps the last DumpFlows call received from its drainers

dvars == <<flowsMap, flowStats, dpc, drainer, flowChan, statChan, dumpRes,
           atCall, inserted, prevClean, lastDrained>>

uvars == <<mode, tracer, obj, rb, statsFd, openFds, stopChan, stopCalls, closePc,
           wk, proc>>

vars == <<kvars, uvars, dvars>>

Idle == [pc |-> "idle", conv |-> 0]

(***************************************************************************)
(* Ring buffer emission.                                                   *)
(***************************************************************************)
\* insert_flows: the record written by the TCP probes.  l4_proto is not
\* assigned, so it keeps whatever the reserved memory held (stale).
TcpFlow(pid, sk, lport, direction, stale) ==
    [saddr |-> sk.skc_rcv_saddr, daddr |-> sk.skc_daddr, lport |-> lport,
     pid |-> pid, direction |-> direction, l4_proto |-> stale]

\* insert_udp_flows: the record written by the UDP probes
UdpFlow(pid, flow_key) ==
    [saddr |-> flow_key.saddr, daddr |-> flow_key.daddr, lport |-> flow_key.lport,
     pid |-> pid, direction |-> flow_key.direction, l4_proto |-> flow_key.l4_proto]

\* bpf_ringbuf_reserve fails when the ring is full; the record is dropped.
\* Every submitted record is tagged with the probe that emitted it, the
\* conversation it belongs to and, for the UDP probes, whether the local
\* port's key (network byte order) was in the port-binding table.
Emit(rec, probe, c) ==
    flows' = IF Len(flows) < RingCap
             THEN Append(flows, [rec |-> rec, probe |-> probe, conv |-> c,
                                 bound |-> /\ probe \in {"ip_make_skb", "skb_consume_udp"}
                                           /\ bpf_htons(c.lport) \in DOMAIN udp_port_binding])
             ELSE flows

(***************************************************************************)
(* BPF hash maps as partial functions.                                     *)
(***************************************************************************)
EmptyMap == [k \in {} |-> 0]
MapPut(m, k, v) == [x \in DOMAIN m \cup {k} |-> IF x = k THEN v ELSE m[x]]
MapDel(m, k) == [x \in DOMAIN m \ {k} |-> m[x]]

Workers == 1..MaxStarts
StopIds == 1..MaxStops
CloseIds == 1..MaxCloses

NoTick == [pc |-> "none", err |-> "none", flows |-> << >>, cberr |-> FALSE]

InitU ==
    /\ mode = "none"
    /\ tracer = "none"
    /\ obj = "none"
    /\ rb = "none"
    /\ statsFd = 0
    /\ openFds = {}
    /\ stopChan = "open"
    /\ stopCalls = [i \in StopIds |-> "none"]
    /\ closePc = [i \in CloseIds |-> "none"]
    /\ wk = [w \in Workers |-> NoTick]
    /\ proc = "running"

InitD ==
    /\ flowsMap = EmptyMap
    /\ flowStats = EmptyMap
    /\ dpc = "idle"
    /\ drainer = [g \in {"flows", "stats"} |-> "idle"]
    /\ flowChan = << >>
    /\ statChan = << >>
    /\ dumpRes = [flows |-> << >>, err |-> "none"]
    /\ atCall = 0
    /\ inserted = FALSE
    /\ prevClean = FALSE
    /\ lastDrained = [flows |-> EmptyMap, stats |-> EmptyMap]

InitK ==
    /\ tcp_connect_sockets = EmptyMap
    /\ udp_port_binding = EmptyMap
    /\ flows = << >>
    /\ thr = [t \in Tids |-> Idle]
    /\ udp_socket_req = {}
    /\ udp_fds = {}
    /\ pending_bind = EmptyMap

bindvars == <<udp_socket_req, udp_fds, pending_bind>>

(***************************************************************************)
(* 4.1  TCP probes.                                                        *)
(***************************************************************************)
\* kprobe/tcp_v4_connect; stored: bpf_map_update_elem succeeded (it fails when
\* the map is full or the element cannot be allocated, and its result is
\* not looked at)
tcp_v4_connect(t, c, stored) ==
    /\ thr[t].pc = "idle"
    /\ tcp_connect_sockets' =
          IF stored THEN MapPut(tcp_connect_sockets, TidOf(pid_tgid(t)), SockOf(c))
          ELSE tcp_connect_sockets
    /\ thr' = [thr EXCEPT ![t] = [pc |-> "tcp_v4_connect",
                                  conv |-> IF stored THEN c ELSE 0]]
    /\ UNCHANGED <<udp_port_binding, flows, bindvars, uvars, dvars>>

\* the record tcp_v4_connect_ret hands to insert_flows
ConnectRetMutDir(pid, sk, stale) == TcpFlow(pid, sk, sk.skc_dport, FLOW_PASSIVE, stale)
ConnectRetMutPort(pid, sk, stale) == TcpFlow(pid, sk, sk.skc_num, FLOW_ACTIVE, stale)
ConnectRetFlow(pid, sk, stale) == TcpFlow(pid, sk, sk.skc_dport, FLOW_ACTIVE, stale)

\* kretprobe/tcp_v4_connect
tcp_v4_connect_ret_keep_failed(t, ret, stale) ==
    /\ thr[t].pc = "tcp_v4_connect"
    /\ LET tid == TidOf(pid_tgid(t))
           pid == PidOf(pid_tgid(t))
       IN IF tid \notin DOMAIN tcp_connect_sockets
          THEN UNCHANGED <<tcp_connect_sockets, flows, uvars, dvars>>
          ELSE IF ret # 0
               THEN UNCHANGED <<tcp_connect_sockets, flows>>
               ELSE /\ Emit(ConnectRetFlow(pid, tcp_connect_sockets[tid], stale),
                            "tcp_v4_connect_ret", thr[t].conv)
                    /\ tcp_connect_sockets' = MapDel(tcp_connect_sockets, tid)
    /\ thr' = [thr EXCEPT ![t] = Idle]
    /\ UNCHANGED <<udp_port_binding, bindvars, uvars, dvars>>
tcp_v4_connect_ret(t, ret, stale) ==
    /\ thr[t].pc = "tcp_v4_connect"
    /\ LET tid == TidOf(pid_tgid(t))
           pid == PidOf(pid_tgid(t))
       IN IF tid \notin DOMAIN tcp_connect_sockets
          THEN UNCHANGED <<tcp_connect_sockets, flows, uvars, dvars>>
          ELSE /\ IF ret # 0
                  THEN UNCHANGED flows
                  ELSE Emit(ConnectRetFlow(pid, tcp_connect_sockets[tid], stale),
                            "tcp_v4_connect_ret", thr[t].conv)
               /\ tcp_connect_sockets' = MapDel(tcp_connect_sockets, tid)
    /\ thr' = [thr EXCEPT ![t] = Idle]
    /\ UNCHANGED <<udp_port_binding, bindvars, uvars, dvars>>

\* the record inet_csk_accept_ret hands to insert_flows
AcceptRetFlow(pid, sk, stale) == TcpFlow(pid, sk, sk.skc_num, FLOW_PASSIVE, stale)

\* kretprobe/inet_csk_accept; isNull: accept returned no socket
inet_csk_accept_ret(t, c, isNull, stale) ==
    /\ thr[t].pc = "idle"
    /\ IF isNull
       THEN UNCHANGED flows
       ELSE Emit(AcceptRetFlow(PidOf(pid_tgid(t)), SockOf(c), stale),
                 "inet_csk_accept_ret", c)
    /\ UNCHANGED <<tcp_connect_sockets, udp_port_binding, thr, bindvars, uvars, dvars>>

(***************************************************************************)
(* 4.2  UDP probes.                                                        *)
(***************************************************************************)
\* ip_make_skb: the flow key built from the socket and the flowi4
SendKeyMutPort(sk, flw4, table) ==
    LET sport == sk.skc_num
        dport == sk.skc_dport
    IN IF sport \in DOMAIN table
       THEN [saddr |-> flw4.daddr, daddr |-> flw4.saddr, direction |-> FLOW_PASSIVE,
             lport |-> bpf_htons(sport), l4_proto |-> IPPROTO_UDP]
       ELSE [saddr |-> flw4.saddr, daddr |-> flw4.daddr, direction |-> FLOW_ACTIVE,
             lport |-> bpf_htons(sport), l4_proto |-> IPPROTO_UDP]
SendFlowKey(sk, flw4, table) ==
    LET sport == sk.skc_num
        dport == sk.skc_dport
    IN IF sport \in DOMAIN table
       THEN [saddr |-> flw4.daddr, daddr |-> flw4.saddr, direction |-> FLOW_PASSIVE,
             lport |-> bpf_htons(sport), l4_proto |-> IPPROTO_UDP]
       ELSE [saddr |-> flw4.saddr, daddr |-> flw4.daddr, direction |-> FLOW_ACTIVE,
             lport |-> dport, l4_proto |-> IPPROTO_UDP]

\* kprobe/ip_make_skb
ip_make_skb(t, c) ==
    /\ thr[t].pc = "idle"
    /\ Emit(UdpFlow(PidOf(pid_tgid(t)),
                    SendFlowKey(SockOf(c), Flowi4Of(c), udp_port_binding)),
            "ip_make_skb", c)
    /\ UNCHANGED <<tcp_connect_sockets, udp_port_binding, thr, bindvars, uvars, dvars>>

\* skb_consume_udp: the flow key built from the IP and UDP headers
RecvKeyMutNoSwap(skb, table) ==
    LET sport == skb.source
        dport == skb.dest
        dport_key == dport
    IN IF dport_key \in DOMAIN table
       THEN [saddr |-> skb.ip_saddr, daddr |-> skb.ip_daddr, direction |-> FLOW_PASSIVE,
             lport |-> dport, l4_proto |-> IPPROTO_UDP]
       ELSE [saddr |-> skb.ip_daddr, daddr |-> skb.ip_saddr, direction |-> FLOW_ACTIVE,
             lport |-> sport, l4_proto |-> IPPROTO_UDP]
RecvFlowKey(skb, table) ==
    LET sport == skb.source
        dport == skb.dest
        dport_key == bpf_htons(dport)
    IN IF dport_key \in DOMAIN table
       THEN [saddr |-> skb.ip_saddr, daddr |-> skb.ip_daddr, direction |-> FLOW_PASSIVE,
             lport |-> dport, l4_proto |-> IPPROTO_UDP]
       ELSE [saddr |-> skb.ip_daddr, daddr |-> skb.ip_saddr, direction |-> FLOW_ACTIVE,
             lport |-> sport, l4_proto |-> IPPROTO_UDP]

\* kprobe/skb_consume_udp
skb_consume_udp(t, c) ==
    /\ thr[t].pc = "idle"
    /\ Emit(UdpFlow(PidOf(pid_tgid(t)), RecvFlowKey(SkbOf(c), udp_port_binding)),
            "skb_consume_udp", c)
    /\ UNCHANGED <<tcp_connect_sockets, udp_port_binding, thr, bindvars, uvars, dvars>>

(***************************************************************************)
(* 4.2  Bind tracking (include/port_binding.h).  The key of the            *)
(* port-binding table is the port in network byte order, as read from the  *)
(* sockaddr.                                                               *)
(***************************************************************************)
sys_enter_socket(t, family, type) ==
    /\ thr[t].pc = "idle"
    /\ udp_socket_req' = IF family = AF_INET /\ type = SOCK_DGRAM
                         THEN udp_socket_req \cup {t} ELSE udp_socket_req
    /\ thr' = [thr EXCEPT ![t] = [Idle EXCEPT !.pc = "socket"]]
    /\ UNCHANGED <<tcp_connect_sockets, udp_port_binding, flows, udp_fds, pending_bind, uvars, dvars>>

sys_exit_socket(t, fd) ==
    /\ thr[t].pc = "socket"
    /\ udp_fds' = IF t \in udp_socket_req /\ fd >= 0
                  THEN udp_fds \cup {<<t, fd>>} ELSE udp_fds
    /\ udp_socket_req' = udp_socket_req \ {t}
    /\ thr' = [thr EXCEPT ![t] = Idle]
    /\ UNCHANGED <<tcp_connect_sockets, udp_port_binding, flows, pending_bind, uvars, dvars>>

\* port: the port NUMBER being bound; sin_port carries it in network byte order
sys_enter_bind(t, fd, port) ==
    /\ thr[t].pc = "idle"
    /\ LET sin_port == bpf_htons(port)
       IN IF <<t, fd>> \in udp_fds
          THEN /\ pending_bind' = MapPut(pending_bind, t, sin_port)
               /\ udp_port_binding' = MapPut(udp_port_binding, sin_port, "ADDING")
          ELSE UNCHANGED <<pending_bind, udp_port_binding, uvars, dvars>>
    /\ thr' = [thr EXCEPT ![t] = [Idle EXCEPT !.pc = "bind"]]
    /\ UNCHANGED <<tcp_connect_sockets, flows, udp_socket_req, udp_fds, uvars, dvars>>

sys_exit_bind_commit_always(t, ret) ==
    /\ thr[t].pc = "bind"
    /\ IF t \in DOMAIN pending_bind
       THEN /\ udp_port_binding' = MapPut(udp_port_binding, pending_bind[t], "BOUND")
            /\ pending_bind' = MapDel(pending_bind, t)
       ELSE UNCHANGED <<pending_bind, udp_port_binding, uvars, dvars>>
    /\ thr' = [thr EXCEPT ![t] = Idle]
    /\ UNCHANGED <<tcp_connect_sockets, flows, udp_socket_req, udp_fds, uvars, dvars>>
sys_exit_bind(t, ret) ==
    /\ thr[t].pc = "bind"
    /\ IF t \in DOMAIN pending_bind
       THEN /\ udp_port_binding' =
                  IF ret = 0 THEN MapPut(udp_port_binding, pending_bind[t], "BOUND")
                             ELSE MapDel(udp_port_binding, pending_bind[t])
            /\ pending_bind' = MapDel(pending_bind, t)
       ELSE UNCHANGED <<pending_bind, udp_port_binding, uvars, dvars>>
    /\ thr' = [thr EXCEPT ![t] = Idle]
    /\ UNCHANGED <<tcp_connect_sockets, flows, udp_socket_req, udp_fds, uvars, dvars>>

\* the UDP ports the OS reports as bound when the bootstrap runs (port 13568
\* is bound only by binds the tracepoints see)
BootPorts == {53}

\* 4.6 userspace bootstrap: every UDP port the OS reports as bound becomes BOUND
BootstrapTable(table, ports) ==
    [k \in DOMAIN table \cup {bpf_htons(p) : p \in ports} |->
        IF k \in {bpf_htons(p) : p \in ports} THEN "BOUND" ELSE table[k]]

initializeUDPPortBindingMap(ports) ==
    /\ ports # {}
    /\ udp_port_binding' = BootstrapTable(udp_port_binding, ports)
    /\ UNCHANGED <<tcp_connect_sockets, flows, thr, bindvars, uvars, dvars>>

\* the ring-buffer consumer takes the oldest record
RingConsume ==
    /\ flows # << >>
    /\ flows' = Tail(flows)
    /\ UNCHANGED <<tcp_connect_sockets, udp_port_binding, thr, bindvars, uvars, dvars>>

Rets == {0, -1}
SocketFds == {-1, 3}
BindFds == {3, 4}

NextK ==
    \/ \E t \in Tids, c \in Convs, stored \in BOOLEAN : tcp_v4_connect(t, c, stored)
    \/ \E t \in Tids, ret \in Rets, stale \in StaleProto : tcp_v4_connect_ret(t, ret, stale)
    \/ \E t \in Tids, c \in Convs, isNull \in BOOLEAN, stale \in StaleProto :
          inet_csk_accept_ret(t, c, isNull, stale)
    \/ \E t \in Tids, c \in Convs : ip_make_skb(t, c)
    \/ \E t \in Tids, c \in Convs : skb_consume_udp(t, c)
    \/ \E t \in Tids, family \in {AF_INET, 10}, type \in {1, SOCK_DGRAM} :
          sys_enter_socket(t, family, type)
    \/ \E t \in Tids, fd \in SocketFds : sys_exit_socket(t, fd)
    \/ \E t \in Tids, fd \in BindFds, port \in PortNums : sys_enter_bind(t, fd, port)
    \/ \E t \in Tids, ret \in Rets : sys_exit_bind(t, ret)
    \/ initializeUDPPortBindingMap(BootPorts)
    \/ RingConsume

Init == InitK /\ InitU /\ InitD

Next == NextK

Spec == Init /\ [][Next]_vars

(***************************************************************************)
(* Userspace lifecycle: tracer.go and tracer_streaming.go.                 *)
(*                                                                         *)
(* One tracer object.  Start, Stop and Close are called by any goroutine   *)
(* at any time once the constructor has returned the tracer.               *)
(***************************************************************************)
EINTR == 4
\* fds the kernel hands out for BPF_ENABLE_STATS; 0..2 are the process's stdio
StatsFds == {3}
\* the steps of the constructors that can fail ("none": every step succeeds)
AggrFailPoints == {"none", "rlimit", "open", "attach", "stats"}
StreamingFailPoints == {"none", "rlimit", "open", "attach", "ringbuf", "stats"}
\* lists DumpFlows may have merged from the kernel maps
DumpResults == {<< >>, <<"flow">>}
\* values ring_buffer__poll returns
PollRets == {0, 1, -EINTR, -9}

\* NewTracer
NewTracer(stats, failAt, fd) ==
    /\ proc = "running"
    /\ mode = "none"
    /\ failAt = "stats" => stats
    /\ mode' = "aggr"
    /\ obj' = CASE failAt \in {"rlimit", "open"} -> "none"
                [] failAt = "attach" -> "loaded"
                [] OTHER -> "attached"
    /\ tracer' = IF failAt = "none" THEN "valid" ELSE "error"
    /\ statsFd' = IF stats /\ failAt = "none" THEN fd ELSE 0
    /\ openFds' = IF stats /\ failAt = "none" THEN {fd} ELSE {}
    /\ UNCHANGED <<rb, stopChan, stopCalls, closePc, wk, proc, kvars, dvars>>

\* NewTracerStreaming
NewTracerStreaming(stats, failAt, fd) ==
    /\ proc = "running"
    /\ mode = "none"
    /\ failAt = "stats" => stats
    /\ mode' = "streaming"
    /\ obj' = CASE failAt \in {"rlimit", "open"} -> "none"
                [] failAt = "attach" -> "destroyed"
                [] OTHER -> "attached"
    /\ rb' = IF failAt \in {"none", "stats"} THEN "alive" ELSE "none"
    /\ tracer' = IF failAt = "none" THEN "valid" ELSE "error"
    /\ statsFd' = IF stats /\ failAt = "none" THEN fd ELSE 0
    /\ openFds' = IF stats /\ failAt = "none" THEN {fd} ELSE {}
    /\ UNCHANGED <<stopChan, stopCalls, closePc, wk, proc, kvars, dvars>>

\* Calls are numbered in the order they are made.
NextCall(f, i) == f[i] = "none" /\ (IF i = 1 THEN TRUE ELSE f[i - 1] # "none")
NextStart(w) == wk[w].pc = "none" /\ (IF w = 1 THEN TRUE ELSE wk[w - 1].pc # "none")

\* Reading t.obj or t.rb after Close released it is a use after free: the
\* call may crash the process or run on whatever the freed memory holds.
ObjGone == obj = "destroyed"
RbGone == rb = "freed"
Crash(w) ==
    /\ proc' = "crash"
    /\ wk' = [wk EXCEPT ![w].pc = "crash"]
    /\ UNCHANGED <<mode, tracer, obj, rb, statsFd, openFds, stopChan, stopCalls,
                   closePc, kvars, dvars>>

\* Tracer.Start: bootstrap the port-binding map, then go t.pollFlows(...).
\* A bootstrap that fails has written nothing.
Tracer_Start(w, init) ==
    /\ proc = "running"
    /\ tracer = "valid" /\ mode = "aggr"
    /\ NextStart(w)
    /\ init = "crash" => ObjGone
    /\ IF init = "crash"
       THEN Crash(w)
       ELSE /\ udp_port_binding' = IF init = "ok"
                                   THEN BootstrapTable(udp_port_binding, BootPorts)
                                   ELSE udp_port_binding
            /\ wk' = [wk EXCEPT ![w].pc = IF init = "ok" THEN "select" ELSE "initfail"]
            /\ UNCHANGED <<mode, tracer, obj, rb, statsFd, openFds, stopChan,
                           stopCalls, closePc, proc, tcp_connect_sockets, flows,
                           thr, bindvars, dvars>>

\* TracerStreaming.Start up to the loop: bootstrap, then the ticker
TracerStreaming_Start(w, init) ==
    /\ proc = "running"
    /\ tracer = "valid" /\ mode = "streaming"
    /\ NextStart(w)
    /\ init = "crash" => ObjGone
    /\ IF init = "crash"
       THEN Crash(w)
       ELSE /\ udp_port_binding' = IF init = "ok"
                                   THEN BootstrapTable(udp_port_binding, BootPorts)
                                   ELSE udp_port_binding
            /\ wk' = [wk EXCEPT ![w].pc = IF init = "ok" THEN "select" ELSE "initfail"]
            /\ UNCHANGED <<mode, tracer, obj, rb, statsFd, openFds, stopChan,
                           stopCalls, closePc, proc, tcp_connect_sockets, flows,
                           thr, bindvars, dvars>>

\* `case <-t.stopChan: return`: the receive completes with the blocked send
\* of Stop call i, or (i = 0) on the closed channel.
RecvStop(i) ==
    /\ IF i = 0 THEN stopChan = "closed" /\ UNCHANGED stopCalls
       ELSE /\ stopChan = "open"
            /\ stopCalls[i] = "sending"
            /\ stopCalls' = [stopCalls EXCEPT ![i] = "returned"]

\* Tracer.pollFlows, stop branch
pollFlows_stop_continue(w, i) ==
    /\ proc = "running"
    /\ mode = "aggr" /\ wk[w].pc = "select"
    /\ RecvStop(i)
    /\ UNCHANGED <<wk, mode, tracer, obj, rb, statsFd, openFds, stopChan, closePc, proc, kvars, dvars>>
pollFlows_stop(w, i) ==
    /\ proc = "running"
    /\ mode = "aggr" /\ wk[w].pc = "select"
    /\ RecvStop(i)
    /\ wk' = [wk EXCEPT ![w].pc = "exited"]
    /\ UNCHANGED <<mode, tracer, obj, rb, statsFd, openFds, stopChan, closePc, proc, kvars, dvars>>

\* Tracer.DumpFlows, as pollFlows sees it: the merged list, or nil and the
\* error of the drainer group
DumpFlowsKeepOnErr(merged, egErr) ==
    [flows |-> merged, err |-> IF egErr THEN "err" ELSE "nil"]
DumpFlowsReturn(merged, egErr) ==
    IF egErr THEN [flows |-> << >>, err |-> "err"]
             ELSE [flows |-> merged, err |-> "nil"]

\* Tracer.pollFlows, tick branch: flows, err := t.DumpFlows()
pollFlows_tick(w, merged, egErr, crash) ==
    /\ proc = "running"
    /\ mode = "aggr" /\ wk[w].pc = "select"
    /\ crash => ObjGone
    /\ IF crash
       THEN Crash(w)
       ELSE /\ LET r == DumpFlowsReturn(merged, egErr)
               IN wk' = [wk EXCEPT ![w] = [pc |-> "cb", err |-> r.err, flows |-> r.flows,
                                           cberr |-> wk[w].cberr]]
            /\ UNCHANGED <<mode, tracer, obj, rb, statsFd, openFds, stopChan,
                           stopCalls, closePc, proc, kvars, dvars>>

\* Tracer.pollFlows, tick branch: cb(flows); its error is only logged
pollFlows_cb_return(w, cberr) ==
    /\ proc = "running"
    /\ mode = "aggr" /\ wk[w].pc = "cb"
    /\ wk' = [wk EXCEPT ![w].pc = IF cberr \/ wk[w].err = "err" THEN "exited" ELSE "select",
                        ![w].cberr = cberr]
    /\ UNCHANGED <<mode, tracer, obj, rb, statsFd, openFds, stopChan, stopCalls,
                   closePc, proc, kvars, dvars>>
pollFlows_cb(w, cberr) ==
    /\ proc = "running"
    /\ mode = "aggr" /\ wk[w].pc = "cb"
    /\ wk' = [wk EXCEPT ![w].pc = "select", ![w].cberr = cberr]
    /\ UNCHANGED <<mode, tracer, obj, rb, statsFd, openFds, stopChan, stopCalls,
                   closePc, proc, kvars, dvars>>

\* TracerStreaming.Start, stop branch
Start_stop(w, i) ==
    /\ proc = "running"
    /\ mode = "streaming" /\ wk[w].pc = "select"
    /\ RecvStop(i)
    /\ wk' = [wk EXCEPT ![w].pc = "exited"]
    /\ UNCHANGED <<mode, tracer, obj, rb, statsFd, openFds, stopChan, closePc, proc, kvars, dvars>>

\* TracerStreaming.Start, tick branch: n := ring_buffer__poll(t.rb, 10)
Start_poll_any_negative(w, n, crash) ==
    /\ proc = "running"
    /\ mode = "streaming" /\ wk[w].pc = "select"
    /\ crash => RbGone
    /\ IF crash
       THEN Crash(w)
       ELSE /\ wk' = [wk EXCEPT ![w].pc = IF n < 0 THEN "pollfail" ELSE "select",
                               ![w].err = IF n >= 0 THEN "nil"
                                          ELSE IF -n = EINTR THEN "eintr" ELSE "err"]
            /\ UNCHANGED <<mode, tracer, obj, rb, statsFd, openFds, stopChan,
                           stopCalls, closePc, proc, kvars, dvars>>
Start_poll(w, n, crash) ==
    /\ proc = "running"
    /\ mode = "streaming" /\ wk[w].pc = "select"
    /\ crash => RbGone
    /\ IF crash
       THEN Crash(w)
       ELSE /\ wk' = [wk EXCEPT ![w].pc = IF n < 0 /\ -n # EINTR THEN "pollfail" ELSE "select",
                               ![w].err = IF n >= 0 THEN "nil"
                                          ELSE IF -n = EINTR THEN "eintr" ELSE "err"]
            /\ UNCHANGED <<mode, tracer, obj, rb, statsFd, openFds, stopChan,
                           stopCalls, closePc, proc, kvars, dvars>>

\* Stop: t.stopChan <- struct{}{} blocks until a worker receives; a send on a
\* closed channel panics
Stop(i) ==
    /\ proc = "running"
    /\ tracer = "valid"
    /\ NextCall(stopCalls, i)
    /\ IF stopChan = "closed"
       THEN proc' = "panic" /\ stopCalls' = [stopCalls EXCEPT ![i] = "panic"]
       ELSE stopCalls' = [stopCalls EXCEPT ![i] = "sending"] /\ UNCHANGED proc
    /\ UNCHANGED <<mode, tracer, obj, rb, statsFd, openFds, stopChan, closePc, wk, kvars, dvars>>

\* a send blocked on the channel panics when the channel is closed
Stop_closed(i) ==
    /\ proc = "running"
    /\ stopCalls[i] = "sending"
    /\ stopChan = "closed"
    /\ proc' = "panic"
    /\ stopCalls' = [stopCalls EXCEPT ![i] = "panic"]
    /\ UNCHANGED <<mode, tracer, obj, rb, statsFd, openFds, stopChan, closePc, wk, kvars, dvars>>

\* Close: close(t.stopChan); closing a closed channel panics
Close_chan(i) ==
    /\ proc = "running"
    /\ tracer = "valid"
    /\ NextCall(closePc, i)
    /\ IF stopChan = "closed"
       THEN /\ proc' = "panic"
            /\ closePc' = [closePc EXCEPT ![i] = "panic"]
            /\ UNCHANGED stopChan
       ELSE /\ stopChan' = "closed"
            /\ closePc' = [closePc EXCEPT ![i] = "statsFd"]
            /\ UNCHANGED proc
    /\ UNCHANGED <<mode, tracer, obj, rb, statsFd, openFds, stopCalls, wk, kvars, dvars>>

\* Close: if t.statsFd != 0 { syscall.Close(t.statsFd) }
Close_statsFd_skip(i) ==
    /\ proc = "running"
    /\ closePc[i] = "statsFd"
    /\ closePc' = [closePc EXCEPT ![i] = IF mode = "streaming" THEN "rb" ELSE "destroy"]
    /\ UNCHANGED <<openFds, mode, tracer, obj, rb, statsFd, stopChan, stopCalls, wk, proc, kvars, dvars>>
Close_statsFd(i) ==
    /\ proc = "running"
    /\ closePc[i] = "statsFd"
    /\ openFds' = IF statsFd # 0 THEN openFds \ {statsFd} ELSE openFds
    /\ closePc' = [closePc EXCEPT ![i] = IF mode = "streaming" THEN "rb" ELSE "destroy"]
    /\ UNCHANGED <<mode, tracer, obj, rb, statsFd, stopChan, stopCalls, wk, proc, kvars, dvars>>

\* TracerStreaming.Close: C.ring_buffer__free(t.rb)
Close_rb(i) ==
    /\ proc = "running"
    /\ closePc[i] = "rb"
    /\ rb' = "freed"
    /\ closePc' = [closePc EXCEPT ![i] = "destroy"]
    /\ UNCHANGED <<mode, tracer, obj, statsFd, openFds, stopChan, stopCalls, wk, proc, kvars, dvars>>

\* Close: C.conntracer_bpf__destroy(t.obj)
Close_destroy(i) ==
    /\ proc = "running"
    /\ closePc[i] = "destroy"
    /\ obj' = "destroyed"
    /\ closePc' = [closePc EXCEPT ![i] = "done"]
    /\ UNCHANGED <<mode, tracer, rb, statsFd, openFds, stopChan, stopCalls, wk, proc, kvars, dvars>>

StopSenders == 0..MaxStops
StartOutcomes == {"ok", "err", "crash"}

NextL ==
    \/ \E stats \in BOOLEAN, failAt \in AggrFailPoints, fd \in StatsFds :
          NewTracer(stats, failAt, fd)
    \/ \E stats \in BOOLEAN, failAt \in StreamingFailPoints, fd \in StatsFds :
          NewTracerStreaming(stats, failAt, fd)
    \/ \E w \in Workers, init \in StartOutcomes : Tracer_Start(w, init)
    \/ \E w \in Workers, init \in StartOutcomes : TracerStreaming_Start(w, init)
    \/ \E w \in Workers, i \in StopSenders : pollFlows_stop(w, i)
    \/ \E w \in Workers, merged \in DumpResults, egErr \in BOOLEAN, crash \in BOOLEAN :
          pollFlows_tick(w, merged, egErr, crash)
    \/ \E w \in Workers, cberr \in BOOLEAN : pollFlows_cb(w, cberr)
    \/ \E w \in Workers, i \in StopSenders : Start_stop(w, i)
    \/ \E w \in Workers, n \in PollRets, crash \in BOOLEAN : Start_poll(w, n, crash)
    \/ \E i \in StopIds : Stop(i)
    \/ \E i \in StopIds : Stop_closed(i)
    \/ \E i \in CloseIds : Close_chan(i)
    \/ \E i \in CloseIds : Close_statsFd(i)
    \/ \E i \in CloseIds : Close_rb(i)
    \/ \E i \in CloseIds : Close_destroy(i)

LifeSpec == Init /\ [][NextL]_vars

\* The Go scheduler runs every runnable goroutine, and a select with several
\* ready cases picks each of them with positive probability: a worker whose
\* stop case is ready again and again takes it; a running Close or callback
\* proceeds; a blocked send on a closed channel panics.
FairLifeSpec ==
    /\ LifeSpec
    /\ \A w \in Workers :
          /\ SF_vars(\E i \in StopSenders : pollFlows_stop(w, i))
          /\ SF_vars(\E i \in StopSenders : Start_stop(w, i))
          /\ WF_vars(\E cberr \in BOOLEAN : pollFlows_cb(w, cberr))
    /\ \A i \in CloseIds :
          WF_vars(Close_statsFd(i) \/ Close_rb(i) \/ Close_destroy(i))
    /\ \A i \in StopIds : WF_vars(Stop_closed(i))

(***************************************************************************)
(* Tracer.DumpFlows on the maps of the aggregating program.                *)
(***************************************************************************)
defaultFlowMapOpsBatchSize == 10

\* aggregated flow tuples the workload produces
Tuples == {[saddr |-> 1, daddr |-> 2, lport |-> 80, direction |-> FLOW_ACTIVE,
            l4_proto |-> IPPROTO_TCP],
           [saddr |-> 2, daddr |-> 1, lport |-> 53, direction |-> FLOW_PASSIVE,
            l4_proto |-> IPPROTO_UDP]}

\* struct aggregated_flow stored under a tuple
AggrFlowOf(t, pid) ==
    [saddr |-> t.saddr, daddr |-> t.daddr, lport |-> t.lport,
     direction |-> t.direction, l4_proto |-> t.l4_proto, pid |-> pid]

\* the state of a constructed aggregating tracer (NewTracer without stats)
ConstructedAggr ==
    /\ mode = "aggr"
    /\ tracer = "valid"
    /\ obj = "attached"
    /\ rb = "none"
    /\ statsFd = 0
    /\ openFds = {}
    /\ stopChan = "open"
    /\ stopCalls = [i \in StopIds |-> "none"]
    /\ closePc = [i \in CloseIds |-> "none"]
    /\ wk = [w \in Workers |-> NoTick]
    /\ proc = "running"

\* 4.3 aggregating variant: a flow event inserts the tuple's entry or
\* overwrites it in place (last PID)
kernel_insert_flow(t, pid) ==
    /\ flowsMap' = MapPut(flowsMap, t, AggrFlowOf(t, pid))
    /\ inserted' = TRUE
    /\ prevClean' = FALSE
    /\ UNCHANGED <<flowStats, dpc, drainer, flowChan, statChan, dumpRes, atCall,
                   lastDrained, kvars, uvars>>

\* 4.3 aggregating variant: byte counters of the tuple are accumulated
kernel_update_stats(t, sent, recv) ==
    /\ LET old == IF t \in DOMAIN flowStats THEN flowStats[t]
                  ELSE [sent_bytes |-> 0, recv_bytes |-> 0]
       IN /\ old.sent_bytes + old.recv_bytes + sent + recv <= MaxBytes
          /\ flowStats' = MapPut(flowStats, t, [sent_bytes |-> old.sent_bytes + sent,
                                                recv_bytes |-> old.recv_bytes + recv])
    /\ UNCHANGED <<flowsMap, dpc, drainer, flowChan, statChan, dumpRes, atCall,
                   inserted, prevClean, lastDrained, kvars, uvars>>

\* dumpBpfMap: batched lookup-and-delete until the map is empty.  Every
\* batch takes up to `batch` entries; the entries read and what is left.
RECURSIVE DrainAll(_, _)
DrainAll(m, batch) ==
    IF DOMAIN m = {} THEN EmptyMap
    ELSE LET taken == IF Cardinality(DOMAIN m) <= batch THEN DOMAIN m
                      ELSE CHOOSE S \in SUBSET DOMAIN m : Cardinality(S) = batch
             rest == DrainAll([k \in DOMAIN m \ taken |-> m[k]], batch)
         IN [k \in taken \cup DOMAIN rest |-> IF k \in taken THEN m[k] ELSE rest[k]]

\* userspace helpers
ntohs(x) == swab16(x)
inetNtop(a) == <<"ip", a>>
flowDirectionFrom(x) ==
    CASE x = FLOW_UNKNOWN -> FLOW_UNKNOWN
      [] x = FLOW_ACTIVE -> FLOW_ACTIVE
      [] x = FLOW_PASSIVE -> FLOW_PASSIVE
      [] OTHER -> FLOW_UNKNOWN

\* dumpAggrFlows: the Flow built from one drained value
DecodeFlow(v) ==
    [SAddr |-> inetNtop(v.saddr), DAddr |-> inetNtop(v.daddr), LPort |-> v.lport,
     Direction |-> flowDirectionFrom(v.direction),
     L4Proto |-> ntohs(v.l4_proto) % 256, LastPID |-> v.pid]
\* dumpAggrFlows: the map it returns
DecodeFlows(drained) == [t \in DOMAIN drained |-> DecodeFlow(drained[t])]
\* dumpAggrFlowStats: the map it returns
DecodeStats(drained) ==
    [t \in DOMAIN drained |-> [sentBytes |-> drained[t].sent_bytes,
                               recvBytes |-> drained[t].recv_bytes]]

\* DumpFlows is called: the two drainer goroutines are started
DumpFlows_call ==
    /\ dpc = "idle"
    /\ dpc' = "wait"
    /\ drainer' = [g \in {"flows", "stats"} |-> "run"]
    /\ flowChan' = << >>
    /\ statChan' = << >>
    /\ atCall' = Cardinality(DOMAIN flowsMap)
    /\ inserted' = FALSE
    /\ prevClean' = (dumpRes.err = "nil" /\ ~inserted)
    /\ dumpRes' = [flows |-> << >>, err |-> "none"]
    /\ lastDrained' = [flows |-> EmptyMap, stats |-> EmptyMap]
    /\ UNCHANGED <<flowsMap, flowStats, kvars, uvars>>

\* capacity of flowChan and of statChan: make(chan ..., 1)
ChanCap == 1

\* first goroutine: dumpAggrFlows(t.flowsMapFD()), then flowChan <- flow.
\* The send completes when the channel has room; otherwise the goroutine
\* stays blocked in it ("blocked"), since DumpFlows receives only after
\* eg.Wait().
DumpFlows_flows_unbuffered(fail) ==
    /\ drainer["flows"] = "run"
    /\ IF fail
       THEN /\ drainer' = [drainer EXCEPT !["flows"] = "err"]
            /\ UNCHANGED <<flowsMap, flowChan>>
       ELSE /\ flowsMap' = EmptyMap
            /\ drainer' = [drainer EXCEPT !["flows"] = "blocked"]
            /\ UNCHANGED flowChan
    /\ UNCHANGED <<flowStats, dpc, statChan, dumpRes, atCall, inserted, prevClean,
                   lastDrained, kvars, uvars>>
DumpFlows_flows(fail) ==
    /\ drainer["flows"] = "run"
    /\ IF fail
       THEN /\ drainer' = [drainer EXCEPT !["flows"] = "err"]
            /\ UNCHANGED <<flowsMap, flowChan>>
       ELSE /\ flowsMap' = EmptyMap
            /\ IF Len(flowChan) < ChanCap
               THEN /\ flowChan' = Append(flowChan,
                           DecodeFlows(DrainAll(flowsMap, defaultFlowMapOpsBatchSize)))
                    /\ drainer' = [drainer EXCEPT !["flows"] = "ok"]
               ELSE /\ drainer' = [drainer EXCEPT !["flows"] = "blocked"]
                    /\ UNCHANGED flowChan
    /\ UNCHANGED <<flowStats, dpc, statChan, dumpRes, atCall, inserted, prevClean,
                   lastDrained, kvars, uvars>>

\* second goroutine: dumpAggrFlowStats(t.flowStatsMapFD()), then statChan <- stats
DumpFlows_stats(fail) ==
    /\ drainer["stats"] = "run"
    /\ IF fail
       THEN /\ drainer' = [drainer EXCEPT !["stats"] = "err"]
            /\ UNCHANGED <<flowStats, statChan>>
       ELSE /\ flowStats' = EmptyMap
            /\ IF Len(statChan) < ChanCap
               THEN /\ statChan' = Append(statChan,
                           DecodeStats(DrainAll(flowStats, defaultFlowMapOpsBatchSize)))
                    /\ drainer' = [drainer EXCEPT !["stats"] = "ok"]
               ELSE /\ drainer' = [drainer EXCEPT !["stats"] = "blocked"]
                    /\ UNCHANGED statChan
    /\ UNCHANGED <<flowsMap, dpc, flowChan, dumpRes, atCall, inserted, prevClean,
                   lastDrained, kvars, uvars>>

\* the orders a Go map of these keys can be ranged over
Orders(S) == {q \in [1..Cardinality(S) -> S] : \A i, j \in 1..Cardinality(S) : i # j => q[i] # q[j]}

ZeroStat == [sentBytes |-> 0, recvBytes |-> 0]

\* DumpFlows, merge of the two maps in the order `order` of the flow keys
MergeZeroStats(fl, st, order) ==
    [i \in 1..Len(order) |-> [flow |-> fl[order[i]], Stat |-> ZeroStat]]
MergeOnlyWithStat(fl, st, order) ==
    LET keep == SelectSeq(order, LAMBDA t : t \in DOMAIN st)
    IN [i \in 1..Len(keep) |-> [flow |-> fl[keep[i]], Stat |-> st[keep[i]]]]
Merge(fl, st, order) ==
    [i \in 1..Len(order) |->
        [flow |-> fl[order[i]],
         Stat |-> IF order[i] \in DOMAIN st THEN st[order[i]] ELSE ZeroStat]]

\* eg.Wait() has returned: both goroutines are done.  An error of either
\* makes DumpFlows return it with no list; otherwise the maps are received
\* from the channels and merged.
DumpFlows_return(order) ==
    /\ dpc = "wait"
    /\ \A g \in {"flows", "stats"} : drainer[g] \in {"ok", "err"}
    /\ IF \E g \in {"flows", "stats"} : drainer[g] = "err"
       THEN /\ dumpRes' = DumpFlowsReturn(<< >>, TRUE)
            /\ UNCHANGED <<flowChan, statChan, lastDrained>>
       ELSE /\ order \in Orders(DOMAIN Head(flowChan))
            /\ dumpRes' = DumpFlowsReturn(Merge(Head(flowChan), Head(statChan), order), FALSE)
            /\ lastDrained' = [flows |-> Head(flowChan), stats |-> Head(statChan)]
            /\ flowChan' = Tail(flowChan)
            /\ statChan' = Tail(statChan)
    /\ dpc' = "idle"
    /\ drainer' = [g \in {"flows", "stats"} |-> "idle"]
    /\ UNCHANGED <<flowsMap, flowStats, atCall, inserted, prevClean, kvars, uvars>>

AllOrders == UNION {Orders(S) : S \in SUBSET Tuples}

NextD ==
    \/ \E t \in Tuples : kernel_insert_flow(t, 7)
    \/ \E t \in Tuples, b \in {<<1, 0>>, <<0, 1>>} : kernel_update_stats(t, b[1], b[2])
    \/ DumpFlows_call
    \/ \E fail \in BOOLEAN : DumpFlows_flows(fail)
    \/ \E fail \in BOOLEAN : DumpFlows_stats(fail)
    \/ \E order \in AllOrders : DumpFlows_return(order)

InitDump == InitK /\ ConstructedAggr /\ InitD

DumpSpec == InitDump /\ [][NextD]_vars

\* The Go scheduler runs the two drainer goroutines, and the caller of
\* DumpFlows once eg.Wait() can return.
FairDumpSpec ==
    /\ DumpSpec
    /\ WF_vars(\E fail \in BOOLEAN : DumpFlows_flows(fail))
    /\ WF_vars(\E fail \in BOOLEAN : DumpFlows_stats(fail))
    /\ WF_vars(\E order \in AllOrders : DumpFlows_return(order))

(***************************************************************************)
(* Properties of the kernel probes.                                        *)
(***************************************************************************)
Emitted == {flows[i] : i \in 1..Len(flows)}
TcpProbes == {"tcp_v4_connect_ret", "inet_csk_accept_ret"}
UdpProbes == {"ip_make_skb", "skb_consume_udp"}
\* v holds port number p, in host or in network byte order
PortIs(v, p) == v = p \/ v = bpf_htons(p)

\* C1: every TCP record in the ring is ACTIVE exactly when the connect return
\* probe emitted it and PASSIVE exactly when the accept return probe did; it
\* carries no other direction.
C1_TcpDirectionByProbe ==
    \A f \in Emitted : f.probe \in TcpProbes =>
        /\ f.rec.direction \in {FLOW_ACTIVE, FLOW_PASSIVE}
        /\ (f.rec.direction = FLOW_ACTIVE <=> f.probe = "tcp_v4_connect_ret")
        /\ (f.rec.direction = FLOW_PASSIVE <=> f.probe = "inet_csk_accept_ret")

C1_Witness ==
    \E f \in Emitted : f.probe = "tcp_v4_connect_ret" /\ f.rec.direction = FLOW_ACTIVE

\* C2: every UDP record is PASSIVE when the table held the local port (under
\* its network-byte-order key) at the emission, and ACTIVE when it did not.
C2_UdpDirectionByBinding ==
    \A f \in Emitted : f.probe \in UdpProbes =>
        /\ f.bound => f.rec.direction = FLOW_PASSIVE
        /\ ~f.bound => f.rec.direction = FLOW_ACTIVE

\* C3: in every record the listening port is the remote port of the
\* conversation when the direction is ACTIVE and the local port when it is
\* PASSIVE (which port, whatever byte order the field is in).
C3_ListeningPortSide ==
    \A f \in Emitted :
        /\ f.rec.direction = FLOW_ACTIVE => PortIs(f.rec.lport, f.conv.rport)
        /\ f.rec.direction = FLOW_PASSIVE => PortIs(f.rec.lport, f.conv.lport)
        /\ f.rec.direction \in {FLOW_ACTIVE, FLOW_PASSIVE}

C3_Witness ==
    \E f \in Emitted : f.probe = "ip_make_skb" /\ f.rec.direction = FLOW_ACTIVE
                        /\ f.rec.lport = bpf_htons(f.conv.rport)

(***************************************************************************)
(* Properties of the userspace lifecycle.                                  *)
(***************************************************************************)
Started == \E w \in Workers : wk[w].pc \notin {"none", "initfail", "crash"}

\* C4: a Stop call returns only by handing its signal to a worker, which
\* exits in that very step, and a worker that has exited takes no further
\* step: it invokes no callback and polls no ring buffer.
C4_NoWorkAfterStop ==
    [][ /\ \A i \in StopIds :
              (stopCalls[i] = "sending" /\ stopCalls'[i] = "returned") =>
                 \E w \in Workers : wk[w].pc = "select" /\ wk'[w].pc = "exited"
        /\ \A w \in Workers : wk[w].pc = "exited" => wk'[w] = wk[w] ]_vars

C4_Witness ==
    \E i \in StopIds, w \in Workers :
        stopCalls[i] = "returned" /\ wk[w].pc = "exited" /\ wk[w].err # "none"

\* C5: Stop is idempotent: after Start, a call of Stop that is blocked in
\* its send eventually returns, also when it is a repeated call, made
\* besides a Stop that has already returned (runs in which Close closes the
\* channel are left aside).
C5_StopReturns ==
    \A i \in StopIds :
        (/\ stopCalls[i] = "sending" /\ Started /\ stopChan = "open"
         /\ \E j \in StopIds : stopCalls[j] = "returned")
            ~> (stopCalls[i] = "returned" \/ stopChan = "closed")

\* C6: no worker drains the maps once the BPF object is destroyed, and none
\* polls the ring buffer once it is freed.
C6_NoUseAfterClose ==
    [][ /\ ObjGone => ~ \E w \in Workers, merged \in DumpResults, egErr, crash \in BOOLEAN :
                           pollFlows_tick(w, merged, egErr, crash)
        /\ RbGone => ~ \E w \in Workers, n \in PollRets, crash \in BOOLEAN :
                           Start_poll(w, n, crash) ]_vars

\* C7: Close on a tracer on which neither Start nor Stop was ever called
\* and Close is called once: it does not fail, each of its statements can
\* run, and when it is done the BPF object is destroyed, the ring buffer
\* (streaming) freed and no stats fd is left open.
FreshClose ==
    /\ tracer = "valid"
    /\ \A w \in Workers : wk[w].pc = "none"
    /\ \A i \in StopIds : stopCalls[i] = "none"
    /\ closePc[1] # "none"
    /\ \A i \in CloseIds \ {1} : closePc[i] = "none"

C7_CloseWithoutStart ==
    FreshClose =>
        /\ proc = "running"
        /\ closePc[1] \in {"statsFd", "rb", "destroy"} =>
              ENABLED (Close_statsFd(1) \/ Close_rb(1) \/ Close_destroy(1))
        /\ closePc[1] = "done" =>
              /\ obj = "destroyed"
              /\ mode = "streaming" => rb = "freed"
              /\ openFds = {}

C7_Witness ==
    FreshClose /\ closePc[1] = "done" /\ mode = "streaming" /\ statsFd # 0

\* C8: a constructor that returned an error has left no BPF object loaded,
\* no ring buffer alive and no stats fd open.
C8_FailedCtorReleases ==
    tracer = "error" =>
        /\ obj \in {"none", "destroyed"}
        /\ rb \in {"none", "freed"}
        /\ openFds = {}

\* C10: in aggregating mode a worker leaves its loop only through the stop
\* branch of its select (a Stop call's signal, or the channel Close closed);
\* after the callback, whatever the drain and the callback returned, it is
\* back at the select, where the next tick can run; a tick whose drain
\* failed hands the callback no records; and the process dies only once
\* Close has closed the channel.
C10_TickErrorsDoNotStop ==
    /\ [](\A w \in Workers :
             (mode = "aggr" /\ wk[w].pc = "select" /\ proc = "running") =>
                ENABLED (\E merged \in DumpResults, egErr \in BOOLEAN :
                            pollFlows_tick(w, merged, egErr, FALSE)))
    /\ [][ /\ \A w \in Workers : mode = "aggr" =>
                /\ (wk[w].pc # "exited" /\ wk'[w].pc = "exited") =>
                      /\ wk[w].pc = "select"
                      /\ \/ stopChan = "closed"
                         \/ \E i \in StopIds : /\ stopCalls[i] = "sending"
                                                /\ stopCalls'[i] = "returned"
                /\ (wk[w].pc = "cb" /\ wk'[w] # wk[w]) => wk'[w].pc = "select"
                /\ (wk'[w].pc = "cb" /\ wk'[w].err = "err") => wk'[w].flows = << >>
           /\ (proc = "running" /\ proc' # "running") => stopChan = "closed" ]_vars

C10_Witness ==
    \E w \in Workers :
        /\ mode = "aggr" /\ proc = "running"
        /\ wk[w].pc = "select" /\ wk[w].err = "err" /\ wk[w].cberr

(***************************************************************************)
(* Properties of DumpFlows.                                                *)
(***************************************************************************)
DumpReturned == dpc = "idle" /\ dumpRes.err = "nil"

\* C9: when DumpFlows has returned a list and the kernel has not touched the
\* flows map since the call, the list has one record per entry the map held
\* at the call and the map is empty; if moreover the call before had
\* succeeded with the map untouched since, the list is empty.
C9_DrainThenEmpty ==
    (DumpReturned /\ ~inserted) =>
        /\ Len(dumpRes.flows) = atCall
        /\ flowsMap = EmptyMap
        /\ prevClean => dumpRes.flows = << >>

C9_Witness ==
    /\ DumpReturned /\ ~inserted /\ prevClean
    /\ dumpRes.flows = << >>
    /\ atCall = 0

C9_WitnessFirst ==
    DumpReturned /\ ~inserted /\ Len(dumpRes.flows) = 2


(***************************************************************************)
(* Properties of the streaming poll loop.                                  *)
(***************************************************************************)
\* C11: in streaming mode a poll that returned -EINTR leaves the worker in
\* its loop, where the next tick can poll again; a poll that returned any
\* other negative value ends the loop with an error, after which the worker
\* takes no step; a poll that returned a non-negative value leaves the worker
\* in its loop.
C11_PollReturnDecides ==
    /\ [](\A w \in Workers :
             (mode = "streaming" /\ wk[w].pc = "select" /\ proc = "running") =>
                ENABLED (\E n \in PollRets : Start_poll(w, n, FALSE)))
    /\ [][ \A w \in Workers : mode = "streaming" =>
              /\ (/\ wk[w].pc = "select" /\ wk'[w] # wk[w]
                  /\ wk'[w].pc \notin {"exited", "crash"}) =>
                    /\ wk'[w].err \in {"eintr", "err", "nil"}
                    /\ wk'[w].err = "eintr" => wk'[w].pc = "select"
                    /\ wk'[w].err = "nil" => wk'[w].pc = "select"
                    /\ wk'[w].err = "err" => wk'[w].pc = "pollfail"
              /\ wk[w].pc = "pollfail" => wk'[w] = wk[w] ]_vars

C11_Witness ==
    \E w, v \in Workers :
        /\ mode = "streaming" /\ proc = "running"
        /\ wk[w].pc = "select" /\ wk[w].err = "eintr"
        /\ wk[v].pc = "pollfail" /\ wk[v].err = "err"


(***************************************************************************)
(* Properties of the merge in DumpFlows.                                   *)
(***************************************************************************)
\* C12: the list DumpFlows returned has exactly one Flow per key of the
\* drained flows map and no other record; the Flow of a key carries the stat
\* drained under the same key when there is one and a zeroed stat otherwise;
\* drained stats whose key has no flow add no record.
C12_MergeJoinsByKey ==
    DumpReturned =>
        LET fl == lastDrained.flows
            st == lastDrained.stats
            out == dumpRes.flows
        IN /\ Len(out) = Cardinality(DOMAIN fl)
           /\ \A t \in DOMAIN fl :
                 /\ Cardinality({i \in 1..Len(out) : out[i].flow = fl[t]}) = 1
                 /\ \A i \in 1..Len(out) : out[i].flow = fl[t] =>
                        out[i].Stat = IF t \in DOMAIN st THEN st[t] ELSE ZeroStat
           /\ \A i \in 1..Len(out) : \E t \in DOMAIN fl : out[i].flow = fl[t]

C12_Witness ==
    /\ DumpReturned
    /\ Len(dumpRes.flows) = 2
    /\ \E i, j \in 1..2 : /\ dumpRes.flows[i].Stat # ZeroStat
                           /\ dumpRes.flows[j].Stat = ZeroStat
    /\ Cardinality(DOMAIN lastDrained.stats) = 1

\* a drained stat whose key has no flow, next to a flow that has no stat
C12_WitnessOrphan ==
    /\ DumpReturned
    /\ Len(dumpRes.flows) = 1
    /\ dumpRes.flows[1].Stat = ZeroStat
    /\ DOMAIN lastDrained.stats \ DOMAIN lastDrained.flows # {}


(***************************************************************************)
(* Properties of the in-flight connect map.                                *)
(***************************************************************************)
\* C13: the in-flight connect map holds entries only for threads that are
\* inside tcp_v4_connect; when the return probe has run on a thread the map
\* holds no entry for it, whatever connect returned and whether or not the
\* ring had room for the record; and the return probe of a connect that
\* returned non-zero leaves the ring as it was.
C13_ConnectMapCleaned ==
    /\ [](\A t \in Tids : TidOf(pid_tgid(t)) \in DOMAIN tcp_connect_sockets =>
                              thr[t].pc = "tcp_v4_connect")
    /\ [][ \A t \in Tids :
              /\ (thr[t].pc = "tcp_v4_connect" /\ thr'[t].pc = "idle") =>
                    TidOf(pid_tgid(t)) \notin DOMAIN tcp_connect_sockets'
              /\ \A ret \in Rets \ {0}, stale \in StaleProto :
                    tcp_v4_connect_ret(t, ret, stale) => flows' = flows ]_vars

\* a thread's return probe has emitted its record, which fills the ring, and
\* has left no entry for the thread
C13_Witness ==
    \E t \in Tids :
        /\ thr[t].pc = "idle" /\ TidOf(pid_tgid(t)) \notin DOMAIN tcp_connect_sockets
        /\ \E f \in Emitted : f.probe = "tcp_v4_connect_ret"
        /\ Len(flows) = RingCap


(***************************************************************************)
(* Properties of the record fields.                                        *)
(***************************************************************************)
\* C14: every record a TCP probe emitted has l4_proto = 6 and every record a
\* UDP probe emitted has l4_proto = 17.
C14_ProtoByProbe ==
    \A f \in Emitted :
        /\ f.probe \in TcpProbes => f.rec.l4_proto = IPPROTO_TCP
        /\ f.probe \in UdpProbes => f.rec.l4_proto = IPPROTO_UDP

\* C15: every Flow that dumpAggrFlows built from a drained value whose
\* l4_proto is 6 or 17 has L4Proto equal to that value (the tuple a value is
\* stored under carries the same l4_proto as the value).
C15_DecodeKeepsProto ==
    DumpReturned =>
        \A t \in DOMAIN lastDrained.flows :
            t.l4_proto \in {IPPROTO_TCP, IPPROTO_UDP} =>
                lastDrained.flows[t].L4Proto = t.l4_proto

\* C16: in every emitted record, whichever probe emitted it, the listening
\* port field holds the port number of the listening side (the remote port
\* of an ACTIVE record, the local port of a PASSIVE one) in host byte order,
\* that is, the number itself.
C16_LportHostOrder ==
    \A f \in Emitted :
        f.rec.lport = IF f.rec.direction = FLOW_ACTIVE THEN f.conv.rport
                      ELSE f.conv.lport


(***************************************************************************)
(* Properties of Close and Start.                                          *)
(***************************************************************************)
\* C17: Close releases in the order ring buffer, BPF object, stats fd: the
\* ring buffer is freed while the BPF object is not yet destroyed, the BPF
\* object of a streaming tracer is destroyed only once the ring buffer is
\* freed, and the stats fd is closed only once the BPF object is destroyed.
C17_ReleaseOrder ==
    [][ /\ (rb # "freed" /\ rb' = "freed") => obj # "destroyed"
        /\ (obj # "destroyed" /\ obj' = "destroyed" /\ mode = "streaming"
              /\ tracer = "valid") => rb = "freed"
        /\ (tracer = "valid" /\ openFds' # openFds) => obj = "destroyed" ]_vars

\* C18: userspace writes the port-binding map only in Start's bootstrap and
\* only while no polling worker of the tracer is running (so before the
\* first drain or poll of the worker that Start goes on to run); and a
\* Start whose bootstrap failed has no worker: it never drains or polls.
PollingWorkers == {w \in Workers : wk[w].pc \in {"select", "cb"}}

C18_BootstrapBeforePolling ==
    [][ /\ udp_port_binding' # udp_port_binding =>
              /\ PollingWorkers = {}
              /\ \E w \in Workers : wk[w].pc = "none" /\ wk'[w].pc \in {"select", "initfail"}
        /\ \A w \in Workers :
              /\ (wk[w].pc = "none" /\ wk'[w].pc = "select") => PollingWorkers = {}
              /\ wk[w].pc = "initfail" => wk'[w] = wk[w] ]_vars


(***************************************************************************)
(* Properties of the port-binding table.                                   *)
(***************************************************************************)
PortKeys == {bpf_htons(p) : p \in PortNums}

\* C19: when sys_exit_bind runs on a thread whose bind of a UDP socket is in
\* flight, the entry of the port is BOUND afterwards if bind returned zero
\* and absent if it returned non-zero, and the thread's pending bind is
\* cleared in both cases; a thread has a pending bind only while it is inside
\* bind; and the table is keyed by port, every entry being ADDING or BOUND.
C19_BindCommitsOnSuccess ==
    /\ [](/\ \A t \in DOMAIN pending_bind : thr[t].pc = "bind"
          /\ DOMAIN udp_port_binding \subseteq PortKeys
          /\ \A k \in DOMAIN udp_port_binding : udp_port_binding[k] \in {"ADDING", "BOUND"})
    /\ [][ \A t \in Tids :
              (thr[t].pc = "bind" /\ thr'[t].pc = "idle" /\ t \in DOMAIN pending_bind) =>
                 /\ t \notin DOMAIN pending_bind'
                 /\ sys_exit_bind(t, 0) =>
                       /\ pending_bind[t] \in DOMAIN udp_port_binding'
                       /\ udp_port_binding'[pending_bind[t]] = "BOUND"
                 /\ \A ret \in Rets \ {0} : sys_exit_bind(t, ret) =>
                       pending_bind[t] \notin DOMAIN udp_port_binding' ]_vars

\* sys_exit_bind has committed the bind of port 13568 (which the bootstrap
\* never writes) and cleared the pending binds, and port 53 has no entry
C19_Witness ==
    /\ bpf_htons(13568) \in DOMAIN udp_port_binding
    /\ udp_port_binding[bpf_htons(13568)] = "BOUND"
    /\ bpf_htons(53) \notin DOMAIN udp_port_binding
    /\ pending_bind = EmptyMap
    /\ \A t \in Tids : thr[t].pc = "idle"

\* C20: an entry of the port-binding table that is BOUND is still there and
\* still BOUND after every step of any thread.
C20_BoundStaysBound ==
    [][ \A k \in DOMAIN udp_port_binding :
           udp_port_binding[k] = "BOUND" =>
              /\ k \in DOMAIN udp_port_binding'
              /\ udp_port_binding'[k] = "BOUND" ]_vars


(***************************************************************************)
(* The two UDP probes on one conversation.                                 *)
(***************************************************************************)
\* C21: the record the send probe emits for a conversation is the record the
\* receive probe builds for the same conversation under the same table, and
\* the record the receive probe emits is the one the send probe builds:
\* same addresses, listening port, direction and protocol, hence the same
\* outcome of the lookup of the local port.
C21_SendRecvAgree ==
    [][ Len(flows') = Len(flows) + 1 =>
          LET x == flows'[Len(flows')]
          IN /\ x.probe = "ip_make_skb" =>
                   x.rec = UdpFlow(x.rec.pid, RecvFlowKey(SkbOf(x.conv), udp_port_binding))
             /\ x.probe = "skb_consume_udp" =>
                   x.rec = UdpFlow(x.rec.pid,
                                   SendFlowKey(SockOf(x.conv), Flowi4Of(x.conv),
                                               udp_port_binding)) ]_vars

\* the receive probe has emitted a record on a lookup that hit
C21_Witness ==
    \E f \in Emitted : f.probe = "skb_consume_udp" /\ f.rec.direction = FLOW_PASSIVE


(***************************************************************************)
(* The stop channel.                                                       *)
(***************************************************************************)
\* C22: no call of Stop or Close sends on or closes a stop channel that is
\* already closed: the process never dies of a Go runtime panic, and no call
\* of Stop or Close ends in one.
C22_NoPanicOnClosedChan ==
    /\ proc # "panic"
    /\ \A i \in StopIds : stopCalls[i] # "panic"
    /\ \A i \in CloseIds : closePc[i] # "panic"


(***************************************************************************)
(* Properties of the two drainers of DumpFlows.                            *)
(***************************************************************************)
\* C23: no stat entry that a drainer removed from the kernel map is
\* discarded: when DumpFlows has returned a list, every stat it drained is
\* attached to the Flow of the same tuple in that list; and when DumpFlows
\* has returned an error, it has removed no stat entry from the kernel map.
C23_StatsConserved ==
    /\ DumpReturned =>
          \A t \in DOMAIN lastDrained.stats :
              /\ t \in DOMAIN lastDrained.flows
              /\ \E i \in 1..Len(dumpRes.flows) :
                    /\ dumpRes.flows[i].flow = lastDrained.flows[t]
                    /\ dumpRes.flows[i].Stat = lastDrained.stats[t]
    /\ (dpc = "idle" /\ dumpRes.err = "err") =>
          \A i \in 1..Len(statChan) : statChan[i] = EmptyMap

\* C24: every call of DumpFlows returns; no drainer goroutine is ever left
\* blocked in its send; a call in which a drainer failed returns the error
\* and no list, and a call in which both succeeded returns the merged list.
C24_DumpFlowsTerminates ==
    /\ (dpc = "wait") ~> (dpc = "idle")
    /\ [](\A g \in {"flows", "stats"} : drainer[g] # "blocked")
    /\ []((dpc = "idle" /\ dumpRes.err = "err") => dumpRes.flows = << >>)
    /\ [][ (dpc = "wait" /\ dpc' = "idle") =>
              IF \E g \in {"flows", "stats"} : drainer[g] = "err"
              THEN dumpRes'.err = "err"
              ELSE /\ dumpRes'.err = "nil"
                   /\ Len(dumpRes'.flows) = Cardinality(DOMAIN Head(flowChan)) ]_vars

\* DumpFlows has returned the error of the flows drainer while the stats
\* drainer had completed its send, which nobody received
C24_Witness ==
    /\ dpc = "idle" /\ dumpRes.err = "err"
    /\ Len(statChan) = ChanCap
    /\ flowChan = << >>

=============================================================================
